---- MODULE Spec2Model ----
(***************************************************************************)
(* Verification model of the batch-collection core of rbfx:                *)
(*   - SceneZRange, TransientDrawableIndex and DrawableLightData           *)
(*     (Source/Urho3D/Graphics/SceneBatchCollector.h)                      *)
(*   - PipelineStateBuilder                                                *)
(*     (Source/Urho3D/RenderPipeline/PipelineStateBuilder.cpp)             *)
(* Each component has its own specification (SpecZ, SpecT, SpecL, SpecP    *)
(* and SpecR for the builder, SpecC for Process, SpecK for two threads in  *)
(* the builder, SpecW for worker threads in SceneZRange::Accumulate,       *)
(* SpecM for tracy::Lockable, SpecS for SceneMetadata); the variables of   *)
(* the other components stay at their initial values.                      *)
(***************************************************************************)
EXTENDS Integers, Sequences, FiniteSets, TLC

VARIABLES
    \* SceneZRange
    threadRanges_,      \* ea::vector<DrawableZRange>, one slot per thread
    sceneRange_,        \* merged range
    sceneRangeDirty_,   \* whether sceneRange_ must be recomputed
    zHist,              \* history: last operation, expected union, last Get result
    \* TransientDrawableIndex
    traits_,            \* ea::vector<TraitType>
    zRange_,            \* ea::vector<DrawableZRange>
    tHist,              \* history: last operation and the arrays before it
    \* DrawableLightData<MaxPixelLights, MaxVertexLights>
    lights_,            \* vector_map<float, unsigned>: <<penalty, lightIndex>>, ascending
    numImportantLights_,
    firstVertexLight_,
    sh_,                \* SphericalHarmonicsDot9: accumulated SH lights
    lHist,              \* history: calls since Reset() and the state before the last call
    \* PipelineStateBuilder and the renderer's pipeline state cache
    pipelineStateDesc_, \* transient fixed-function descriptor
    shaderProgramDesc_, \* transient shader names, defines and instancing flag
    pipelineStateCache, \* Renderer: cached descriptors, the handle is the position
    pHist,              \* history: the last CreateBatchPipelineState call
    \* SceneBatchCollector::Process
    processPc,          \* 0 outside Process(), else the position of the running phase
    workQueue,          \* tasks forked by the running phase and not yet completed
    cHist,              \* history: phases started and finished by the last Process()
    \* Two threads inside CreateBatchPipelineState of one builder
    builderCalls,       \* per thread: position in the call, its batch, what it returned
    \* Worker threads inside SceneZRange::Accumulate
    workers,            \* per thread index: position in the call, argument, loaded slot
    wHist,              \* history: ranges accumulated since Clear(), whether joined
    \* tracy::Lockable<T>
    m_lockable,         \* the wrapped lock: the thread that owns it, 0 when free
    lockThreads,        \* per thread: position in lock(), unlock() or try_lock()
    lockQueue,          \* per thread: the events it enqueued for this lock id
    \* SceneMetadata
    viewportComponents_, \* ea::vector<WeakPtr<CameraViewport>>
    sHist               \* history: the last call and the list before it

zVars == <<threadRanges_, sceneRange_, sceneRangeDirty_, zHist>>
tVars == <<traits_, zRange_, tHist>>
lVars == <<lights_, numImportantLights_, firstVertexLight_, sh_, lHist>>
pVars == <<pipelineStateDesc_, shaderProgramDesc_, pipelineStateCache, pHist>>
cVars == <<processPc, workQueue, cHist>>
kVars == <<builderCalls>>
wVars == <<workers, wHist>>
mVars == <<m_lockable, lockThreads, lockQueue>>
sVars == <<viewportComponents_, sHist>>
vars == <<zVars, tVars, lVars, pVars, cVars, kVars, wVars, mVars, sVars>>

\* What the operations of one component leave alone: the other components.
zFrame == <<tVars, lVars, pVars, cVars, kVars, wVars, mVars, sVars>>
tFrame == <<zVars, lVars, pVars, cVars, kVars, wVars, mVars, sVars>>
lFrame == <<zVars, tVars, pVars, cVars, kVars, wVars, mVars, sVars>>
pFrame == <<zVars, tVars, lVars, cVars, kVars, wVars, mVars, sVars>>
cFrame == <<zVars, tVars, lVars, pVars, kVars, wVars, mVars, sVars>>
kFrame == <<zVars, tVars, lVars, pHist, cVars, wVars, mVars, sVars>>
wFrame == <<zHist, tVars, lVars, pVars, cVars, kVars, mVars, sVars>>
mFrame == <<zVars, tVars, lVars, pVars, cVars, kVars, wVars, sVars>>
sFrame == <<zVars, tVars, lVars, pVars, cVars, kVars, wVars, mVars>>

-----------------------------------------------------------------------------
(* Bounds of the model *)

\* Z values are the integers 0..MaxZ (floats compared with < and > only).
MaxZ == 2
\* Clear(numThreads) is called with numThreads in 0..MaxThreads.
MaxThreads == 2
\* Reset(numDrawables) is called with numDrawables in 0..MaxDrawables.
MaxDrawables == 2
\* Template parameter MaxVertexLights of DrawableLightData.
MaxVertexLights == 1
\* The non-negative penalties passed by the caller are the integers 0..MaxPenalty.
MaxPenalty == 2
\* At most MaxLightCalls AccumulateLight calls between two Reset() calls.
MaxLightCalls == 4
\* At most MaxBuilds CreateBatchPipelineState calls in a behaviour of SpecP.
MaxBuilds == 2
\* A parallel phase of Process() forks 0..MaxTasks tasks.
MaxTasks == 3
\* At most MaxFrames Process() calls in a behaviour of SpecC.
MaxFrames == 4
\* Every thread makes at most MaxLockCalls lock() and try_lock() calls.
MaxLockCalls == 2
\* viewportComponents_ holds at most MaxViewportEntries entries.
MaxViewportEntries == 4

Min(a, b) == IF a < b THEN a ELSE b
Max(a, b) == IF a > b THEN a ELSE b

-----------------------------------------------------------------------------
(* DrawableZRange = NumericRange<float> (Math/NumericRange.h) *)

\* Default-constructed range: the empty sentinel, min above every value and
\* max below every value.
EmptyRange == <<MaxZ + 1, -1>>

\* Ranges a caller can pass: every closed interval and the empty range.
ValidRanges == {r \in (0..MaxZ) \X (0..MaxZ) : r[1] <= r[2]}
Ranges == ValidRanges \cup {EmptyRange}

\* operator |= : union of two ranges.
RangeUnion(a, b) == <<Min(a[1], b[1]), Max(a[2], b[2])>>

-----------------------------------------------------------------------------
(* SceneZRange *)

\* History of the calls since the last Clear(): n is the argument of that
\* Clear, gets the number of Get() calls (counted up to 2), merges the number
\* of times Get() ran its merge loop, first the value of the first Get().
ZInit ==
    /\ threadRanges_ = <<>>
    /\ sceneRange_ = EmptyRange
    /\ sceneRangeDirty_ = FALSE
    /\ zHist = [op |-> "Init", lo |-> MaxZ + 1, hi |-> -1, stale |-> FALSE,
                cleared |-> FALSE, result |-> EmptyRange,
                n |-> 0, gets |-> 0, merges |-> 0, first |-> EmptyRange]

\* Clear(numThreads)
ClearRanges(numThreads) == [i \in 1..numThreads |-> EmptyRange]

Clear(numThreads) ==
    /\ threadRanges_' = ClearRanges(numThreads)
    /\ sceneRangeDirty_' = TRUE
    /\ UNCHANGED sceneRange_
    /\ zHist' = [op |-> "Clear", lo |-> MaxZ + 1, hi |-> -1, stale |-> FALSE,
                 cleared |-> TRUE, result |-> zHist.result,
                 n |-> numThreads, gets |-> 0, merges |-> 0, first |-> EmptyRange]
    /\ UNCHANGED zFrame

\* threadRanges_[threadIndex] |= range   (threadIndex is 0-based in the code)
AccumulateSlot_Overwrite(slots, threadIndex, range) ==
    [slots EXCEPT ![threadIndex + 1] = range]

AccumulateSlot_AllSlots(slots, threadIndex, range) ==
    [i \in DOMAIN slots |-> RangeUnion(slots[i], range)]

AccumulateSlot(slots, threadIndex, range) ==
    [slots EXCEPT ![threadIndex + 1] = RangeUnion(slots[threadIndex + 1], range)]

Accumulate(threadIndex, range) ==
    /\ threadIndex < Len(threadRanges_)
    /\ threadRanges_' = AccumulateSlot(threadRanges_, threadIndex, range)
    /\ UNCHANGED <<sceneRange_, sceneRangeDirty_>>
    /\ zHist' = [zHist EXCEPT !.op = "Accumulate",
                              !.lo = IF range[1] < @ THEN range[1] ELSE @,
                              !.hi = IF range[2] > @ THEN range[2] ELSE @,
                              !.stale = ~sceneRangeDirty_]
    /\ UNCHANGED zFrame

\* The loop of Get(): sceneRange_ = {}; for (range : threadRanges_) sceneRange_ |= range
RECURSIVE MergeFrom(_, _, _)
MergeFrom(slots, i, acc) ==
    IF i > Len(slots) THEN acc
    ELSE MergeFrom(slots, i + 1, RangeUnion(acc, slots[i]))

MergeRanges_LastOnly(slots) ==
    IF slots = <<>> THEN EmptyRange ELSE slots[Len(slots)]

MergeRanges(slots) == MergeFrom(slots, 1, EmptyRange)

\* if (sceneRangeDirty_): whether Get() runs the merge loop
GetRecomputes_Always(dirty) == TRUE

GetRecomputes(dirty) == dirty

Get ==
    /\ IF GetRecomputes(sceneRangeDirty_)
          THEN /\ sceneRangeDirty_' = FALSE
               /\ sceneRange_' = MergeRanges(threadRanges_)
          ELSE UNCHANGED <<sceneRange_, sceneRangeDirty_>>
    /\ UNCHANGED threadRanges_
    /\ zHist' = [zHist EXCEPT !.op = "Get", !.result = sceneRange_',
                              !.gets = Min(@ + 1, 2),
                              !.merges = IF GetRecomputes(sceneRangeDirty_) THEN @ + 1 ELSE @,
                              !.first = IF zHist.gets = 0 THEN sceneRange_' ELSE @]
    /\ UNCHANGED zFrame

ZNext ==
    \/ \E n \in 0..MaxThreads : Clear(n)
    \/ \E t \in 0..(MaxThreads - 1), r \in Ranges : Accumulate(t, r)
    \/ Get

-----------------------------------------------------------------------------
(* TransientDrawableIndex *)

DrawableUpdated == 2
DrawableVisibleGeometry == 4
ForwardLit == 8
Traits == {DrawableUpdated, DrawableVisibleGeometry, ForwardLit}

\* v | bit
BitOr(v, bit) == IF (v \div bit) % 2 = 1 THEN v ELSE v + bit

TInit ==
    /\ traits_ = <<>>
    /\ zRange_ = <<>>
    /\ tHist = [op |-> "Init", n |-> 0, prevZRange |-> <<>>, prevWritten |-> FALSE]

\* ea::vector<T>::resize(n): keeps the first min(size, n) elements and
\* value-initialises the rest.
Resize(v, n, default) == [i \in 1..n |-> IF i <= Len(v) THEN v[i] ELSE default]

\* ea::fill(begin, end, value)
Fill(v, value) == [i \in 1..Len(v) |-> value]

ResetTraits_NoFill(v, numDrawables) == Resize(v, numDrawables, 0)

ResetTraits(v, numDrawables) == Fill(Resize(v, numDrawables, 0), 0)

ResetZRange(v, numDrawables) == Resize(v, numDrawables, EmptyRange)

Reset(numDrawables) ==
    /\ traits_' = ResetTraits(traits_, numDrawables)
    /\ zRange_' = ResetZRange(zRange_, numDrawables)
    /\ tHist' = [op |-> "Reset", n |-> numDrawables, prevZRange |-> zRange_,
                 prevWritten |-> \E i \in 1..Len(traits_) : traits_[i] # 0]
    /\ UNCHANGED tFrame

\* Writes of the collector to the public fields during the frame.
WriteTrait(drawableIndex, trait) ==
    /\ drawableIndex < Len(traits_)
    /\ traits_' = [traits_ EXCEPT ![drawableIndex + 1] = BitOr(@, trait)]
    /\ UNCHANGED zRange_
    /\ tHist' = [op |-> "Write", n |-> tHist.n, prevZRange |-> <<>>, prevWritten |-> FALSE]
    /\ UNCHANGED tFrame

WriteZRange(drawableIndex, range) ==
    /\ drawableIndex < Len(zRange_)
    /\ zRange_' = [zRange_ EXCEPT ![drawableIndex + 1] = range]
    /\ UNCHANGED traits_
    /\ tHist' = [op |-> "Write", n |-> tHist.n, prevZRange |-> <<>>, prevWritten |-> FALSE]
    /\ UNCHANGED tFrame

\* Z ranges the collector stores for a drawable: [0, h].
WrittenRanges == {r \in ValidRanges : r[1] = 0}

TNext ==
    \/ \E n \in 0..MaxDrawables : Reset(n)
    \/ \E i \in 0..(MaxDrawables - 1), t \in Traits : WriteTrait(i, t)
    \/ \E i \in 0..(MaxDrawables - 1), r \in WrittenRanges : WriteZRange(i, r)

-----------------------------------------------------------------------------
(* DrawableLightData *)

LightImportance == {"LI_AUTO", "LI_IMPORTANT", "LI_NOT_IMPORTANT"}

\* Values of ctx.maxPixelLights_ (unsigned, default 1).
PixelLightSettings == {0, 1, 2}

\* Penalties passed by the caller: 0..MaxPenalty and one value below the -1
\* of an important light.
Penalties == (0..MaxPenalty) \cup {-2}

\* Values of the public member sh_: 0 is the default-constructed term.
SHValues == {0, 1}

\* lHist.sh0 is the value last written to sh_ from outside the accumulator.
LInit ==
    /\ lights_ = <<>>
    /\ numImportantLights_ = 0
    /\ firstVertexLight_ = 0
    /\ sh_ = 0
    /\ lHist = [op |-> "Init", calls |-> 0, important |-> {}, mpl |-> 0,
                constant |-> TRUE, penalty |-> 0, prevLights |-> <<>>, prevFirst |-> 0,
                sh0 |-> 0]

\* The owner of the accumulator assigns the public member sh_.
WriteSH(value) ==
    /\ sh_' = value
    /\ lHist' = [lHist EXCEPT !.sh0 = value]
    /\ UNCHANGED <<lights_, numImportantLights_, firstVertexLight_>>
    /\ UNCHANGED lFrame

\* Reset() has no statement for firstVertexLight_.
ResetFirstVertexLight_Zero(first) == 0

ResetFirstVertexLight(first) == first

\* Reset(): lights_.clear(); numImportantLights_ = 0
LightDataReset ==
    /\ lights_' = <<>>
    /\ numImportantLights_' = 0
    /\ firstVertexLight_' = ResetFirstVertexLight(firstVertexLight_)
    /\ UNCHANGED sh_
    /\ lHist' = [op |-> "Reset", calls |-> 0, important |-> {}, mpl |-> 0,
                 constant |-> TRUE, penalty |-> 0, prevLights |-> <<>>,
                 prevFirst |-> firstVertexLight_, sh0 |-> lHist.sh0]
    /\ UNCHANGED lFrame

\* if (ctx.lightImportance_ == LI_IMPORTANT) penalty = -1.0f
EffectivePenalty(importance, penalty) ==
    IF importance = "LI_IMPORTANT" THEN -1 ELSE penalty

\* if (ctx.lightImportance_ == LI_IMPORTANT) ++numImportantLights_
CountImportant(count, importance) ==
    IF importance = "LI_IMPORTANT" THEN count + 1 ELSE count

\* vector_map::emplace: the container holds one entry per key, sorted by
\* ea::less<float>; an entry whose key is already present is not inserted.
Emplace(container, key, value) ==
    IF \E i \in 1..Len(container) : container[i][1] = key
       THEN container
       ELSE LET below == Cardinality({i \in 1..Len(container) : container[i][1] < key})
            IN  [i \in 1..(Len(container) + 1) |->
                    IF i <= below THEN container[i]
                    ELSE IF i = below + 1 THEN <<key, value>>
                    ELSE container[i - 1]]

\* firstVertexLight_ = ea::max(ctx.maxPixelLights_, numImportantLights_)
FirstVertexLight_PixelOnly(maxPixelLights, numImportant) == maxPixelLights

FirstVertexLight(maxPixelLights, numImportant) == Max(maxPixelLights, numImportant)

\* if (lights_.size() > maxLights) lights_.pop_back()
DropExcess_Never(container, maxLights) == container

DropExcess_Front(container, maxLights) ==
    IF Len(container) > maxLights THEN Tail(container) ELSE container

DropExcess(container, maxLights) ==
    IF Len(container) > maxLights
       THEN SubSeq(container, 1, Len(container) - 1)
       ELSE container

\* // TODO: Update SH : the branch that drops a light has no statement for sh_.
UpdateSH_Fold(sh, container, maxLights) ==
    IF Len(container) > maxLights THEN 1 - sh ELSE sh

UpdateSH(sh, container, maxLights) == sh

AccumulateLight(maxPixelLights, importance, lightIndex, penalty) ==
    LET p == EffectivePenalty(importance, penalty)
        count == CountImportant(numImportantLights_, importance)
        first == FirstVertexLight(maxPixelLights, count)
        maxLights == MaxVertexLights + first
    IN  /\ lHist.calls < MaxLightCalls
        /\ lightIndex = lHist.calls
        /\ numImportantLights_' = count
        /\ firstVertexLight_' = first
        /\ lights_' = DropExcess(Emplace(lights_, p, lightIndex), maxLights)
        /\ sh_' = UpdateSH(sh_, Emplace(lights_, p, lightIndex), maxLights)
        /\ lHist' = [op |-> "AccumulateLight",
                     calls |-> lHist.calls + 1,
                     important |-> IF importance = "LI_IMPORTANT"
                                      THEN lHist.important \cup {lightIndex}
                                      ELSE lHist.important,
                     mpl |-> maxPixelLights,
                     constant |-> lHist.constant /\ (lHist.calls = 0 \/ lHist.mpl = maxPixelLights),
                     penalty |-> p,
                     prevLights |-> lights_,
                     prevFirst |-> firstVertexLight_,
                     sh0 |-> lHist.sh0]
        /\ UNCHANGED lFrame

LNext ==
    \/ LightDataReset
    \/ \E value \in SHValues : WriteSH(value)
    \/ \E m \in PixelLightSettings, imp \in LightImportance,
          idx \in 0..(MaxLightCalls - 1), p \in Penalties :
            AccumulateLight(m, imp, idx, p)

\* Light indices held by the container.
LightIndices(container) == {container[i][2] : i \in 1..Len(container)}

-----------------------------------------------------------------------------
(* PipelineStateBuilder: value types *)

CullModes == {"CULL_NONE", "CULL_CCW", "CULL_CW"}

\* Floats are fixed-point numbers in units of 0.25 (2.0 is 8, 0.5 is 2, 1.5 is 6);
\* the products of the values used below are exact.
FloatMul(a, b) == (a * b) \div 4

\* PORTABLE_LIGHTMASK = 0xFF (Graphics/Drawable.h)
PORTABLE_LIGHTMASK == 255

\* mask & PORTABLE_LIGHTMASK
PortableMask_Identity(mask) == mask

PortableMask(mask) == mask % (PORTABLE_LIGHTMASK + 1)

\* A null SharedPtr<ShaderVariation>.
NullShader == <<>>

\* pipelineStateDesc_ = {} : every member value-initialised.
DefaultPipelineStateDesc ==
    [ colorWriteEnabled |-> FALSE, blendMode |-> "BLEND_REPLACE",
      alphaToCoverageEnabled |-> FALSE, fillMode |-> "FILL_SOLID",
      cullMode |-> "CULL_NONE", constantDepthBias |-> 0, slopeScaledDepthBias |-> 0,
      depthWriteEnabled |-> FALSE, depthCompareFunction |-> "CMP_ALWAYS",
      stencilTestEnabled |-> FALSE, stencilCompareFunction |-> "CMP_ALWAYS",
      stencilOperationOnPassed |-> "OP_KEEP", stencilCompareMask |-> 0,
      stencilWriteMask |-> 0, stencilReferenceValue |-> 0,
      inputLayout |-> <<>>, vertexShader |-> NullShader, pixelShader |-> NullShader ]

DefaultShaderProgramDesc ==
    [ vertexShaderName |-> "", pixelShaderName |-> "",
      vertexShaderDefines |-> <<>>, pixelShaderDefines |-> <<>>,
      commonShaderDefines |-> <<>>, isInstancingUsed |-> FALSE ]

\* Light with its LightProcessor: Light::GetLightType, IsNegative,
\* GetLightMaskEffective, GetShadowBias; LightProcessor::DoesOverlapCamera and
\* GetParams().shadowDepthBiasMultiplier_ (one multiplier per split: 1.0, 1.5).
DefaultLight ==
    [ type |-> "LIGHT_POINT", negative |-> FALSE, overlapsCamera |-> FALSE,
      lightMask |-> 3, shadowBias |-> <<8, 2>>, shadowDepthBiasMultiplier |-> <<4, 6>> ]

\* key.pixelLight_ == nullptr
NoLight == [type |-> "nullptr"]

\* Material::GetCullMode, GetShadowCullMode, GetDepthBias
DefaultMaterial ==
    [ cullMode |-> "CULL_CCW", shadowCullMode |-> "CULL_CCW", depthBias |-> <<0, 0>> ]

\* Pass::GetCullMode (MAX_CULLMODES when unset), GetDepthWrite, GetDepthTestMode,
\* GetBlendMode, GetAlphaToCoverage and the shader the pass names.
DefaultPass ==
    [ cullMode |-> "MAX_CULLMODES", depthWrite |-> TRUE, depthTestMode |-> "CMP_LESSEQUAL",
      blendMode |-> "BLEND_REPLACE", alphaToCoverage |-> FALSE, shader |-> "Basic" ]

\* The inputs of one CreateBatchPipelineState call: the batch key, the build
\* context (userPass: sceneProcessor_->GetUserPass(ctx.pass_) resolves;
\* stencilFlag: that pass has DeferredLightMaskToStencil) and what the call reads
\* from its collaborators (instanced: the compositor uses instancing for the
\* geometry; vsm: enableVarianceShadowMaps_; reversed: IsCameraReversed()).
Batch(userPass, stencilFlag, subpass, split, light, material, pass, lightMaskInZone, instanced, vsm, reversed) ==
    [ userPass |-> userPass, stencilFlag |-> stencilFlag, subpass |-> subpass,
      split |-> split, light |-> light, material |-> material, pass |-> pass,
      lightMaskInZone |-> lightMaskInZone, instanced |-> instanced,
      vsm |-> vsm, reversed |-> reversed ]

-----------------------------------------------------------------------------
(* PipelineStateBuilder: helpers *)

\* CullMode GetEffectiveCullMode(CullMode mode, bool isCameraReversed)
GetEffectiveCullMode_FlipNone(mode, isCameraReversed) ==
    IF ~isCameraReversed THEN mode
    ELSE IF mode = "CULL_CW" THEN "CULL_CCW" ELSE "CULL_CW"

GetEffectiveCullMode(mode, isCameraReversed) ==
    IF mode = "CULL_NONE" \/ ~isCameraReversed THEN mode
    ELSE IF mode = "CULL_CW" THEN "CULL_CCW" ELSE "CULL_CW"

\* CullMode GetEffectiveCullMode(CullMode passCullMode, CullMode materialCullMode,
\*                               bool isCameraReversed)
GetEffectiveCullModeOf(passCullMode, materialCullMode, isCameraReversed) ==
    LET cullMode == IF passCullMode # "MAX_CULLMODES" THEN passCullMode ELSE materialCullMode
    IN  GetEffectiveCullMode(cullMode, isCameraReversed)

\* ShaderProgramCompositor::ProcessShadowBatch / ProcessLightVolumeBatch /
\* ProcessUserBatch: fills the shader names and defines and decides instancing.
ProcessBatch(shaderDesc, rule, b) ==
    [ shaderDesc EXCEPT !.vertexShaderName = b.pass.shader,
                        !.pixelShaderName = b.pass.shader,
                        !.vertexShaderDefines = <<rule>>,
                        !.pixelShaderDefines = <<rule>>,
                        !.commonShaderDefines =
                            IF b.instanced THEN <<"URHO3D_INSTANCING">> ELSE <<>>,
                        !.isInstancingUsed = b.instanced ]

\* Graphics::GetShader(type, name, defines): the shader handle, null when no
\* shader of that name exists.
ExistingShaders == {"Basic"}

GetShader(type, name, defines) ==
    IF name \in ExistingShaders THEN <<type, name, defines>> ELSE NullShader

\* Renderer::GetOrCreatePipelineState(desc): the cache is keyed by the whole
\* descriptor; the handle of an entry is its position.
GetOrCreatePipelineState(cache, desc) ==
    IF \E h \in 1..Len(cache) : cache[h] = desc
       THEN [cache |-> cache, handle |-> CHOOSE h \in 1..Len(cache) : cache[h] = desc]
       ELSE [cache |-> Append(cache, desc), handle |-> Len(cache) + 1]

-----------------------------------------------------------------------------
(* PipelineStateBuilder: the builder *)

PInit ==
    /\ pipelineStateDesc_ = DefaultPipelineStateDesc
    /\ shaderProgramDesc_ = DefaultShaderProgramDesc
    /\ pipelineStateCache = <<>>
    /\ pHist = [op |-> "Init", builds |-> 0, final |-> FALSE, in |-> NoLight,
                rule |-> "none", handle |-> 0, lenBefore |-> 0, returned |-> {}]

\* ClearState(): the descriptor and the shader names and defines are cleared;
\* isInstancingUsed_ is not touched.
ClearState(st) ==
    [ p |-> DefaultPipelineStateDesc,
      s |-> [ st.s EXCEPT !.vertexShaderName = "", !.pixelShaderName = "",
                          !.vertexShaderDefines = <<>>, !.pixelShaderDefines = <<>>,
                          !.commonShaderDefines = <<>> ] ]

\* The variance-shadow-map branch of ApplyShadowPass.
ShadowBias_Unscaled(vsm, biasMultiplier, biasParameters) ==
    IF vsm
       THEN [colorWriteEnabled |-> TRUE, constantDepthBias |-> 0, slopeScaledDepthBias |-> 0]
       ELSE [colorWriteEnabled |-> FALSE,
             constantDepthBias |-> biasParameters[1],
             slopeScaledDepthBias |-> biasParameters[2]]

ShadowBias(vsm, biasMultiplier, biasParameters) ==
    IF vsm
       THEN [colorWriteEnabled |-> TRUE, constantDepthBias |-> 0, slopeScaledDepthBias |-> 0]
       ELSE [colorWriteEnabled |-> FALSE,
             constantDepthBias |-> FloatMul(biasMultiplier, biasParameters[1]),
             slopeScaledDepthBias |-> FloatMul(biasMultiplier, biasParameters[2])]

\* GetEffectiveCullMode(materialPass->GetCullMode(), material->GetShadowCullMode(), false)
ShadowCull_Reversed(passCullMode, shadowCullMode, isCameraReversed) ==
    GetEffectiveCullModeOf(passCullMode, shadowCullMode, isCameraReversed)

ShadowCull(passCullMode, shadowCullMode, isCameraReversed) ==
    GetEffectiveCullModeOf(passCullMode, shadowCullMode, FALSE)

ApplyShadowPass(desc, b) ==
    LET biasMultiplier == b.light.shadowDepthBiasMultiplier[b.split + 1]
        biasParameters == b.light.shadowBias
        bias == ShadowBias(b.vsm, biasMultiplier, biasParameters)
    IN  [ desc EXCEPT !.colorWriteEnabled = bias.colorWriteEnabled,
                      !.constantDepthBias = bias.constantDepthBias,
                      !.slopeScaledDepthBias = bias.slopeScaledDepthBias,
                      !.depthWriteEnabled = b.pass.depthWrite,
                      !.depthCompareFunction = b.pass.depthTestMode,
                      !.cullMode = ShadowCull(b.pass.cullMode,
                                        b.material.shadowCullMode, b.reversed) ]

\* The cull mode and depth test of ApplyLightVolumePass.
LightVolumeCull_Swapped(lightType, overlapsCamera, isCameraReversed) ==
    IF lightType # "LIGHT_DIRECTIONAL"
       THEN IF overlapsCamera
               THEN [cullMode |-> GetEffectiveCullMode("CULL_CCW", isCameraReversed),
                     depthCompareFunction |-> "CMP_GREATER"]
               ELSE [cullMode |-> GetEffectiveCullMode("CULL_CW", isCameraReversed),
                     depthCompareFunction |-> "CMP_LESSEQUAL"]
       ELSE [cullMode |-> "CULL_NONE", depthCompareFunction |-> "CMP_ALWAYS"]

LightVolumeCull(lightType, overlapsCamera, isCameraReversed) ==
    IF lightType # "LIGHT_DIRECTIONAL"
       THEN IF overlapsCamera
               THEN [cullMode |-> GetEffectiveCullMode("CULL_CW", isCameraReversed),
                     depthCompareFunction |-> "CMP_GREATER"]
               ELSE [cullMode |-> GetEffectiveCullMode("CULL_CCW", isCameraReversed),
                     depthCompareFunction |-> "CMP_LESSEQUAL"]
       ELSE [cullMode |-> "CULL_NONE", depthCompareFunction |-> "CMP_ALWAYS"]

ApplyLightVolumePass(desc, b) ==
    LET light == b.light
        cull == LightVolumeCull(light.type, light.overlapsCamera, b.reversed)
    IN  [ desc EXCEPT !.colorWriteEnabled = TRUE,
                      !.blendMode = IF light.negative THEN "BLEND_SUBTRACT" ELSE "BLEND_ADD",
                      !.cullMode = cull.cullMode,
                      !.depthCompareFunction = cull.depthCompareFunction,
                      !.stencilTestEnabled = TRUE,
                      !.stencilCompareFunction = "CMP_NOTEQUAL",
                      !.stencilCompareMask = PortableMask(light.lightMask),
                      !.stencilReferenceValue = 0 ]

\* isDeferred && compositorPass->GetFlags().Test(DeferredLightMaskToStencil)
UserStencilWrite_FlagOnly(subpass, stencilFlag) == stencilFlag

UserStencilWrite(subpass, stencilFlag) ==
    LET isDeferred == subpass = "Deferred"
    IN  isDeferred /\ stencilFlag

ApplyUserPass(desc, b) ==
    LET base == [ desc EXCEPT
                    !.depthWriteEnabled = b.pass.depthWrite,
                    !.depthCompareFunction = b.pass.depthTestMode,
                    !.colorWriteEnabled = TRUE,
                    !.blendMode = b.pass.blendMode,
                    !.alphaToCoverageEnabled = b.pass.alphaToCoverage,
                    !.constantDepthBias = b.material.depthBias[1],
                    !.slopeScaledDepthBias = b.material.depthBias[2],
                    !.fillMode = "FILL_SOLID",
                    !.cullMode = GetEffectiveCullModeOf(b.pass.cullMode,
                                      b.material.cullMode, b.reversed) ]
    IN  IF UserStencilWrite(b.subpass, b.stencilFlag)
           THEN [ base EXCEPT !.stencilTestEnabled = TRUE,
                              !.stencilOperationOnPassed = "OP_REF",
                              !.stencilWriteMask = PORTABLE_LIGHTMASK,
                              !.stencilReferenceValue = PortableMask(b.lightMaskInZone) ]
           ELSE base

\* pipelineStateDesc_.InitializeInputLayoutAndPrimitiveType(geometry[, instancing buffer])
InitializeInputLayout(st) ==
    [ st EXCEPT !.p.inputLayout = IF st.s.isInstancingUsed
                                    THEN <<"geometry", "instancingBuffer">>
                                    ELSE <<"geometry">> ]

FinalizeDescription(st) ==
    LET vsDefines == st.s.vertexShaderDefines \o st.s.commonShaderDefines
        psDefines == st.s.pixelShaderDefines \o st.s.commonShaderDefines
    IN  [ p |-> [ st.p EXCEPT !.vertexShader = GetShader("VS", st.s.vertexShaderName, vsDefines),
                              !.pixelShader = GetShader("PS", st.s.pixelShaderName, psDefines) ],
          s |-> [ st.s EXCEPT !.vertexShaderDefines = vsDefines,
                              !.pixelShaderDefines = psDefines ] ]

\* The rule CreateBatchPipelineState selects for the batch.
SelectRule(b) ==
    LET isShadowPass == ~b.userPass /\ b.subpass = "ShadowSubpass"
        isLightVolumePass == ~b.userPass /\ b.subpass = "LitVolumeSubpass"
    IN  IF isShadowPass THEN "shadow"
        ELSE IF isLightVolumePass THEN "lightVolume"
        ELSE IF b.userPass THEN "user"
        ELSE "none"

\* return renderer_->GetOrCreatePipelineState(pipelineStateDesc_)
Submit_Uncached(cache, desc) ==
    [cache |-> Append(cache, desc), handle |-> Len(cache) + 1]

Submit(cache, desc) == GetOrCreatePipelineState(cache, desc)

\* The descriptors after the whole call, starting from the builder state st.
BuildDescription(st, b) ==
    LET rule == SelectRule(b)
        cleared == ClearState(st)
        applied ==
            IF rule = "shadow"
               THEN [p |-> ApplyShadowPass(cleared.p, b), s |-> ProcessBatch(cleared.s, rule, b)]
            ELSE IF rule = "lightVolume"
               THEN [p |-> ApplyLightVolumePass(cleared.p, b), s |-> ProcessBatch(cleared.s, rule, b)]
            ELSE IF rule = "user"
               THEN [p |-> ApplyUserPass(cleared.p, b), s |-> ProcessBatch(cleared.s, rule, b)]
            ELSE cleared
    IN  FinalizeDescription(InitializeInputLayout(applied))

CreateBatchPipelineState(b, final) ==
    LET st == BuildDescription([p |-> pipelineStateDesc_, s |-> shaderProgramDesc_], b)
        got == Submit(pipelineStateCache, st.p)
    IN  /\ pipelineStateDesc_' = st.p
        /\ shaderProgramDesc_' = st.s
        /\ pipelineStateCache' = got.cache
        /\ pHist' = [op |-> "CreateBatchPipelineState",
                     builds |-> pHist.builds + 1,
                     final |-> final,
                     in |-> b,
                     rule |-> SelectRule(b),
                     handle |-> got.handle,
                     lenBefore |-> Len(pipelineStateCache),
                     returned |-> pHist.returned \cup {<<st.p, got.handle>>}]
        /\ UNCHANGED pFrame

-----------------------------------------------------------------------------
(* PipelineStateBuilder: the batches of the model *)

\* A shadow or light-volume batch always carries its light (key.pixelLight_ is
\* dereferenced by both rules); a user batch may have none.
ShadowBatch(vsm, split, shadowBias, depthBias, passCull, shadowCull, depthWrite, reversed) ==
    Batch(FALSE, FALSE, "ShadowSubpass", split,
          [DefaultLight EXCEPT !.shadowBias = shadowBias],
          [DefaultMaterial EXCEPT !.depthBias = depthBias, !.shadowCullMode = shadowCull],
          [DefaultPass EXCEPT !.cullMode = passCull, !.depthWrite = depthWrite,
                              !.depthTestMode = IF depthWrite THEN "CMP_LESSEQUAL" ELSE "CMP_EQUAL"],
          3, FALSE, vsm, reversed)

LightVolumeBatch(type, negative, overlapsCamera, lightMask, reversed) ==
    Batch(FALSE, FALSE, "LitVolumeSubpass", 0,
          [DefaultLight EXCEPT !.type = type, !.negative = negative,
                               !.overlapsCamera = overlapsCamera, !.lightMask = lightMask],
          DefaultMaterial, DefaultPass, 3, FALSE, FALSE, reversed)

UserBatch(subpass, stencilFlag, light, depthBias, passCull, materialCull, blendMode, lightMaskInZone, shader, instanced, reversed) ==
    Batch(TRUE, stencilFlag, subpass, 0, light,
          [DefaultMaterial EXCEPT !.depthBias = depthBias, !.cullMode = materialCull],
          [DefaultPass EXCEPT !.cullMode = passCull, !.blendMode = blendMode,
                              !.alphaToCoverage = (blendMode = "BLEND_ALPHA"),
                              !.depthWrite = (blendMode = "BLEND_REPLACE"),
                              !.shader = shader],
          lightMaskInZone, instanced, FALSE, reversed)

\* No user pass resolves and the sub-pass is neither sentinel.
UnmatchedBatch(subpass) ==
    Batch(FALSE, FALSE, subpass, 0, NoLight, DefaultMaterial, DefaultPass, 3,
          FALSE, FALSE, FALSE)

PassCullModes == CullModes \cup {"MAX_CULLMODES"}
ShadowBiases == {<<8, 2>>, <<4, 0>>}
DepthBiases == {<<0, 0>>, <<4, 4>>}
LightMasks == {3, 261}

\* The batches of SpecP: a few of every kind, with and without instancing,
\* with and without a shader that resolves.
CacheBatches ==
    {ShadowBatch(vsm, 0, <<8, 2>>, <<0, 0>>, "MAX_CULLMODES", "CULL_CCW", TRUE, FALSE) :
        vsm \in BOOLEAN}
    \cup {LightVolumeBatch(type, FALSE, FALSE, 3, FALSE) :
        type \in {"LIGHT_POINT", "LIGHT_DIRECTIONAL"}}
    \cup {UserBatch(subpass, TRUE, NoLight, <<0, 0>>, "MAX_CULLMODES", "CULL_CCW",
                    "BLEND_REPLACE", mask, shader, instanced, FALSE) :
        subpass \in {"Base", "Deferred"}, mask \in LightMasks,
        shader \in {"Basic", "Missing"}, instanced \in BOOLEAN}
    \cup {UnmatchedBatch(subpass) : subpass \in {"Base", "Deferred"}}

\* The earlier batches of SpecR.
PriorBatches ==
    {b \in CacheBatches : b.lightMaskInZone = 3 /\ b.pass.shader = "Basic"}

\* The batches of SpecR: every combination of the inputs each rule reads.
ShadowRuleBatches ==
    {ShadowBatch(vsm, split, shadowBias, depthBias, passCull, shadowCull, depthWrite, reversed) :
        vsm \in BOOLEAN, split \in {0, 1}, shadowBias \in ShadowBiases,
        depthBias \in DepthBiases, passCull \in PassCullModes, shadowCull \in CullModes,
        depthWrite \in BOOLEAN, reversed \in BOOLEAN}

LightVolumeRuleBatches ==
    {LightVolumeBatch(type, negative, overlapsCamera, lightMask, reversed) :
        type \in {"LIGHT_DIRECTIONAL", "LIGHT_SPOT", "LIGHT_POINT"}, negative \in BOOLEAN,
        overlapsCamera \in BOOLEAN, lightMask \in LightMasks, reversed \in BOOLEAN}

UserRuleBatches ==
    {UserBatch(subpass, stencilFlag, light, depthBias, passCull, materialCull, blendMode,
               lightMaskInZone, "Basic", FALSE, reversed) :
        subpass \in {"Base", "Deferred"}, stencilFlag \in BOOLEAN,
        light \in {NoLight, DefaultLight}, depthBias \in DepthBiases,
        passCull \in PassCullModes, materialCull \in CullModes,
        blendMode \in {"BLEND_REPLACE", "BLEND_ALPHA"}, lightMaskInZone \in LightMasks,
        reversed \in BOOLEAN}

RuleBatches == ShadowRuleBatches \cup LightVolumeRuleBatches \cup UserRuleBatches

\* SpecP: up to MaxBuilds batches.
PNext ==
    \E b \in CacheBatches :
        pHist.builds < MaxBuilds /\ CreateBatchPipelineState(b, FALSE)

\* SpecR: an earlier batch, then one batch of RuleBatches.
RNext ==
    \/ \E b \in PriorBatches :
          pHist.builds = 0 /\ CreateBatchPipelineState(b, FALSE)
    \/ \E b \in RuleBatches :
          ~pHist.final /\ CreateBatchPipelineState(b, TRUE)

-----------------------------------------------------------------------------
(* SceneBatchCollector::Process *)

\* The body of Process(): the five calls, in the order of the statements.
ProcessSequence_LightsFirst ==
    << "InitializeFrame", "InitializePasses", "ProcessVisibleLights",
       "UpdateAndCollectSourceBatches", "CollectSceneBatches" >>

ProcessSequence ==
    << "InitializeFrame", "InitializePasses", "UpdateAndCollectSourceBatches",
       "ProcessVisibleLights", "CollectSceneBatches" >>

\* The phases that issue a parallel-for over drawables, lights and batches;
\* below the work threshold a phase forks nothing and runs inline.
ParallelPhases ==
    {"UpdateAndCollectSourceBatches", "ProcessVisibleLights", "CollectSceneBatches"}

ForkedTasks(phase, n) ==
    IF phase \in ParallelPhases THEN {<<phase, i>> : i \in 1..n} ELSE {}

CInit ==
    /\ processPc = 0
    /\ workQueue = {}
    /\ cHist = [frames |-> 0, started |-> <<>>, finished |-> <<>>]

\* Process() is entered: the first call of its body starts.
ProcessBegin ==
    /\ processPc = 0
    /\ cHist.frames < MaxFrames
    /\ processPc' = 1
    /\ workQueue' = ForkedTasks(ProcessSequence[1], 0)
    /\ cHist' = [frames |-> cHist.frames + 1,
                 started |-> <<ProcessSequence[1]>>, finished |-> <<>>]
    /\ UNCHANGED cFrame

\* A worker thread completes one task of the running phase.
TaskComplete(task) ==
    /\ task \in workQueue
    /\ workQueue' = workQueue \ {task}
    /\ UNCHANGED <<processPc, cHist>>
    /\ UNCHANGED cFrame

\* The running phase returns once its tasks are joined; the next statement of
\* Process() runs, forking n tasks when it is a parallel phase, or Process()
\* returns after the last one.
PhaseReturn(n) ==
    /\ processPc > 0
    /\ workQueue = {}
    /\ IF processPc < Len(ProcessSequence)
          THEN /\ processPc' = processPc + 1
               /\ workQueue' = ForkedTasks(ProcessSequence[processPc + 1], n)
               /\ cHist' = [cHist EXCEPT
                                !.started = Append(@, ProcessSequence[processPc + 1]),
                                !.finished = Append(@, ProcessSequence[processPc])]
          ELSE /\ processPc' = 0
               /\ workQueue' = {}
               /\ cHist' = [cHist EXCEPT
                                !.finished = Append(@, ProcessSequence[processPc])]
    /\ UNCHANGED cFrame

CNext ==
    \/ ProcessBegin
    \/ \E task \in workQueue : TaskComplete(task)
    \/ \E n \in 0..MaxTasks : PhaseReturn(n)

-----------------------------------------------------------------------------
(* PipelineStateBuilder: two threads inside CreateBatchPipelineState *)

\* The builder has no lock: pipelineStateDesc_ and shaderProgramDesc_ are
\* members, read and written by every statement of the call.  The statements
\* of two calls interleave; each statement is one step.
BuilderThreads == {1, 2}

NoReturn == [desc |-> DefaultPipelineStateDesc, handle |-> 0]

\* One batch of every rule.
ConcurrentBatches ==
    { ShadowBatch(FALSE, 0, <<8, 2>>, <<0, 0>>, "MAX_CULLMODES", "CULL_CCW", TRUE, FALSE),
      LightVolumeBatch("LIGHT_POINT", FALSE, FALSE, 3, FALSE),
      UserBatch("Base", TRUE, NoLight, <<0, 0>>, "MAX_CULLMODES", "CULL_CCW",
                "BLEND_REPLACE", 3, "Basic", TRUE, FALSE) }

KInit ==
    builderCalls = [t \in BuilderThreads |-> [pc |-> "idle", b |-> NoLight, ret |-> NoReturn]]

\* The if / else-if chain of the call: the rule and the compositor.
DispatchRule(st, b) ==
    LET rule == SelectRule(b)
    IN  IF rule = "shadow"
           THEN [p |-> ApplyShadowPass(st.p, b), s |-> ProcessBatch(st.s, rule, b)]
        ELSE IF rule = "lightVolume"
           THEN [p |-> ApplyLightVolumePass(st.p, b), s |-> ProcessBatch(st.s, rule, b)]
        ELSE IF rule = "user"
           THEN [p |-> ApplyUserPass(st.p, b), s |-> ProcessBatch(st.s, rule, b)]
        ELSE st

BuilderState == [p |-> pipelineStateDesc_, s |-> shaderProgramDesc_]

\* The statement of thread t at position from, turning the members into st.
BuilderStep(t, from, to, st) ==
    /\ builderCalls[t].pc = from
    /\ builderCalls' = [builderCalls EXCEPT ![t].pc = to]
    /\ pipelineStateDesc_' = st.p
    /\ shaderProgramDesc_' = st.s
    /\ UNCHANGED pipelineStateCache
    /\ UNCHANGED kFrame

CallEnter(t, b) ==
    /\ builderCalls[t].pc = "idle"
    /\ builderCalls' = [builderCalls EXCEPT ![t].pc = "ClearState", ![t].b = b]
    /\ UNCHANGED <<pipelineStateDesc_, shaderProgramDesc_, pipelineStateCache>>
    /\ UNCHANGED kFrame

CallClearState(t) ==
    BuilderStep(t, "ClearState", "Dispatch", ClearState(BuilderState))

CallDispatch(t) ==
    BuilderStep(t, "Dispatch", "InputLayout", DispatchRule(BuilderState, builderCalls[t].b))

CallInputLayout(t) ==
    BuilderStep(t, "InputLayout", "Finalize", InitializeInputLayout(BuilderState))

CallFinalize(t) ==
    BuilderStep(t, "Finalize", "Submit", FinalizeDescription(BuilderState))

CallSubmit(t) ==
    LET got == Submit(pipelineStateCache, pipelineStateDesc_)
    IN  /\ builderCalls[t].pc = "Submit"
        /\ builderCalls' = [builderCalls EXCEPT
                               ![t].pc = "returned",
                               ![t].ret = [desc |-> pipelineStateDesc_, handle |-> got.handle]]
        /\ pipelineStateCache' = got.cache
        /\ UNCHANGED <<pipelineStateDesc_, shaderProgramDesc_>>
        /\ UNCHANGED kFrame

KNext ==
    \E t \in BuilderThreads :
        \/ \E b \in ConcurrentBatches : CallEnter(t, b)
        \/ CallClearState(t)
        \/ CallDispatch(t)
        \/ CallInputLayout(t)
        \/ CallFinalize(t)
        \/ CallSubmit(t)

-----------------------------------------------------------------------------
(* SceneZRange: worker threads inside Accumulate *)

\* threadRanges_[threadIndex] |= range is a read of the slot, the union and a
\* write of the slot; the steps of different threads interleave.  The main
\* thread calls Clear() before the workers are forked and Get() after they
\* have joined.
WorkerThreads == 0..(MaxThreads - 1)

\* The ranges the workers accumulate.
WorkerRanges == {<<0, 0>>, <<MaxZ, MaxZ>>}

IdleWorker == [pc |-> "idle", range |-> EmptyRange, loaded |-> EmptyRange]

AllJoined == \A t \in WorkerThreads : workers[t].pc = "idle"

\* The slot a thread reads and writes: threadRanges_[threadIndex].
SlotOf_Shared(threadIndex) == 1

SlotOf(threadIndex) == threadIndex + 1

\* wHist: expected holds, per thread, the union of the ranges it was asked to
\* accumulate since Clear(); overlapped tells that two calls were in flight
\* at once.
WInit ==
    /\ workers = [t \in WorkerThreads |-> IdleWorker]
    /\ wHist = [op |-> "Init", expected |-> <<>>, overlapped |-> FALSE,
                result |-> EmptyRange]

\* Main thread: Clear(numThreads), before the fork.
WorkerClear(numThreads) ==
    /\ AllJoined
    /\ threadRanges_' = ClearRanges(numThreads)
    /\ sceneRangeDirty_' = TRUE
    /\ UNCHANGED <<sceneRange_, workers>>
    /\ wHist' = [op |-> "Clear", expected |-> [i \in 1..numThreads |-> EmptyRange],
                 overlapped |-> FALSE, result |-> wHist.result]
    /\ UNCHANGED wFrame

\* Worker threadIndex enters Accumulate(threadIndex, range) and reads its slot.
AccumulateLoad(threadIndex, range) ==
    /\ wHist.op \in {"Clear", "Accumulate"}
    /\ threadIndex < Len(threadRanges_)
    /\ workers[threadIndex].pc = "idle"
    /\ workers' = [workers EXCEPT ![threadIndex] =
                      [pc |-> "loaded", range |-> range,
                       loaded |-> threadRanges_[SlotOf(threadIndex)]]]
    /\ wHist' = [wHist EXCEPT
                    !.op = "Accumulate",
                    !.expected[threadIndex + 1] = <<Min(@[1], range[1]), Max(@[2], range[2])>>,
                    !.overlapped = @ \/ ~AllJoined]
    /\ UNCHANGED <<threadRanges_, sceneRange_, sceneRangeDirty_>>
    /\ UNCHANGED wFrame

\* Worker threadIndex writes the union back to its slot and returns.
AccumulateStore(threadIndex) ==
    /\ workers[threadIndex].pc = "loaded"
    /\ threadRanges_' = [threadRanges_ EXCEPT ![SlotOf(threadIndex)] =
                            RangeUnion(workers[threadIndex].loaded, workers[threadIndex].range)]
    /\ workers' = [workers EXCEPT ![threadIndex] = IdleWorker]
    /\ UNCHANGED <<sceneRange_, sceneRangeDirty_, wHist>>
    /\ UNCHANGED wFrame

\* Main thread: Get(), after the join.
JoinedGet ==
    /\ AllJoined
    /\ IF GetRecomputes(sceneRangeDirty_)
          THEN /\ sceneRangeDirty_' = FALSE
               /\ sceneRange_' = MergeRanges(threadRanges_)
          ELSE UNCHANGED <<sceneRange_, sceneRangeDirty_>>
    /\ UNCHANGED <<threadRanges_, workers>>
    /\ wHist' = [wHist EXCEPT !.op = "Get", !.result = sceneRange_']
    /\ UNCHANGED wFrame

WNext ==
    \/ \E n \in 0..MaxThreads : WorkerClear(n)
    \/ \E t \in WorkerThreads, r \in WorkerRanges : AccumulateLoad(t, r)
    \/ \E t \in WorkerThreads : AccumulateStore(t)
    \/ JoinedGet

-----------------------------------------------------------------------------
(* tracy::Lockable<T> (ThirdParty/tracy/client/TracyLock.hpp) *)

\* The threads that use the lock; the event queue is per thread (s_token).
LockThreads == {1, 2}

IdleLockThread == [pc |-> "idle", calls |-> 0, op |-> "none", ret |-> FALSE, before |-> 0]

MInit ==
    /\ m_lockable = 0
    /\ lockThreads = [t \in LockThreads |-> IdleLockThread]
    /\ lockQueue = [t \in LockThreads |-> <<>>]

\* enqueue_begin ... tail.store: one event appended to the thread's queue.
Enqueue(queue, t, type) == [queue EXCEPT ![t] = Append(@, type)]

\* try_lock(): if( ret ) { enqueue LockObtain }
TryLockEvents_Always(queue, t, ret) == Enqueue(queue, t, "LockObtain")

TryLockEvents(queue, t, ret) ==
    IF ret THEN Enqueue(queue, t, "LockObtain") ELSE queue

\* lock(): the LockWait event, before m_lockable.lock().
LockWait(t) ==
    /\ lockThreads[t].pc = "idle"
    /\ lockThreads[t].calls < MaxLockCalls
    /\ lockQueue' = Enqueue(lockQueue, t, "LockWait")
    /\ lockThreads' = [lockThreads EXCEPT ![t] =
                          [pc |-> "lock.wait", calls |-> @.calls + 1, op |-> "lock",
                           ret |-> FALSE, before |-> Len(lockQueue[t])]]
    /\ UNCHANGED m_lockable
    /\ UNCHANGED mFrame

\* lock(): m_lockable.lock() returns; it blocks while another thread owns the lock.
LockAcquire(t) ==
    /\ lockThreads[t].pc = "lock.wait"
    /\ m_lockable = 0
    /\ m_lockable' = t
    /\ lockThreads' = [lockThreads EXCEPT ![t].pc = "lock.acquired"]
    /\ UNCHANGED lockQueue
    /\ UNCHANGED mFrame

\* lock(): the LockObtain event, and lock() returns.
LockObtain(t) ==
    /\ lockThreads[t].pc = "lock.acquired"
    /\ lockQueue' = Enqueue(lockQueue, t, "LockObtain")
    /\ lockThreads' = [lockThreads EXCEPT ![t].pc = "holding"]
    /\ UNCHANGED m_lockable
    /\ UNCHANGED mFrame

\* unlock(): m_lockable.unlock(), called by the thread that holds the lock.
UnlockRelease(t) ==
    /\ lockThreads[t].pc = "holding"
    /\ m_lockable' = 0
    /\ lockThreads' = [lockThreads EXCEPT ![t].pc = "unlock.released", ![t].op = "unlock",
                                          ![t].before = Len(lockQueue[t])]
    /\ UNCHANGED lockQueue
    /\ UNCHANGED mFrame

\* unlock(): the LockRelease event, and unlock() returns.
LockRelease(t) ==
    /\ lockThreads[t].pc = "unlock.released"
    /\ lockQueue' = Enqueue(lockQueue, t, "LockRelease")
    /\ lockThreads' = [lockThreads EXCEPT ![t].pc = "idle"]
    /\ UNCHANGED m_lockable
    /\ UNCHANGED mFrame

\* try_lock(): const auto ret = m_lockable.try_lock()
TryLock(t) ==
    LET ret == m_lockable = 0
    IN  /\ lockThreads[t].pc = "idle"
        /\ lockThreads[t].calls < MaxLockCalls
        /\ m_lockable' = IF ret THEN t ELSE m_lockable
        /\ lockThreads' = [lockThreads EXCEPT ![t] =
                              [pc |-> "try_lock.tried", calls |-> @.calls + 1,
                               op |-> "try_lock", ret |-> ret,
                               before |-> Len(lockQueue[t])]]
        /\ UNCHANGED lockQueue
        /\ UNCHANGED mFrame

\* try_lock(): the event when ret, and try_lock() returns ret.
TryLockReturn(t) ==
    /\ lockThreads[t].pc = "try_lock.tried"
    /\ lockQueue' = TryLockEvents(lockQueue, t, lockThreads[t].ret)
    /\ lockThreads' = [lockThreads EXCEPT
                          ![t].pc = IF lockThreads[t].ret THEN "holding" ELSE "idle"]
    /\ UNCHANGED m_lockable
    /\ UNCHANGED mFrame

MNext ==
    \E t \in LockThreads :
        \/ LockWait(t)
        \/ LockAcquire(t)
        \/ LockObtain(t)
        \/ UnlockRelease(t)
        \/ LockRelease(t)
        \/ TryLock(t)
        \/ TryLockReturn(t)

-----------------------------------------------------------------------------
(* SceneMetadata (Scene/SceneMetadata.cpp) *)

\* Components: two CameraViewport components and one of another type.
CameraViewports == {"viewport1", "viewport2"}
Components == CameraViewports \cup {"light"}

\* component->Cast<CameraViewport>() is not null
IsCameraViewport(component) == component \in CameraViewports

\* sHist.net counts, per viewport, its registrations minus its unregistrations
\* that found it listed.
SInit ==
    /\ viewportComponents_ = <<>>
    /\ sHist = [op |-> "Init", component |-> "light", prev |-> <<>>,
                net |-> [v \in CameraViewports |-> 0]]

\* ea::vector::erase_first(value): the first element equal to value is removed.
EraseFirst_All(list, value) ==
    SelectSeq(list, LAMBDA e : e # value)

EraseFirst(list, value) ==
    IF \E i \in 1..Len(list) : list[i] = value
       THEN LET first == CHOOSE i \in 1..Len(list) :
                            list[i] = value /\ \A j \in 1..(i - 1) : list[j] # value
            IN  SubSeq(list, 1, first - 1) \o SubSeq(list, first + 1, Len(list))
       ELSE list

RegisterComponent(component) ==
    /\ Len(viewportComponents_) < MaxViewportEntries
    /\ viewportComponents_' = IF IsCameraViewport(component)
                                 THEN Append(viewportComponents_, component)
                                 ELSE viewportComponents_
    /\ sHist' = [op |-> "RegisterComponent", component |-> component,
                 prev |-> viewportComponents_,
                 net |-> IF component \in CameraViewports
                            THEN [sHist.net EXCEPT ![component] = @ + 1]
                            ELSE sHist.net]
    /\ UNCHANGED sFrame

UnregisterComponent(component) ==
    /\ viewportComponents_' = IF IsCameraViewport(component)
                                 THEN EraseFirst(viewportComponents_, component)
                                 ELSE viewportComponents_
    /\ sHist' = [op |-> "UnregisterComponent", component |-> component,
                 prev |-> viewportComponents_,
                 net |-> IF \E i \in 1..Len(viewportComponents_) :
                                  viewportComponents_[i] = component
                            THEN [sHist.net EXCEPT ![component] = @ - 1]
                            ELSE sHist.net]
    /\ UNCHANGED sFrame

SNext ==
    \/ \E component \in Components : RegisterComponent(component)
    \/ \E component \in Components : UnregisterComponent(component)

-----------------------------------------------------------------------------
(* Specifications *)

Init == ZInit /\ TInit /\ LInit /\ PInit /\ CInit /\ KInit /\ WInit /\ MInit /\ SInit

SpecZ == Init /\ [][ZNext]_vars
SpecT == Init /\ [][TNext]_vars
SpecL == Init /\ [][LNext]_vars
SpecP == Init /\ [][PNext]_vars
SpecR == Init /\ [][RNext]_vars
SpecC == Init /\ [][CNext]_vars
SpecK == Init /\ [][KNext]_vars
SpecW == Init /\ [][WNext]_vars
SpecM == Init /\ [][MNext]_vars
SpecS == Init /\ [][SNext]_vars

-----------------------------------------------------------------------------
(* Claims about SceneZRange (checked under SpecZ) *)

\* C1: after Clear(n) and any Accumulate calls, in any order and on any thread
\* slots, a following Get() returns the union of all accumulated ranges: the
\* smallest accumulated minimum and the largest accumulated maximum (the empty
\* range when nothing valid was accumulated), whatever n and the slots were.
C1_GetIsUnionOfAccumulated ==
    (zHist.op = "Get" /\ zHist.cleared /\ ~zHist.stale)
        => zHist.result = <<zHist.lo, zHist.hi>>

\* Get() after Clear(2) with different non-empty ranges in both slots.
C1_Witness ==
    /\ zHist.op = "Get" /\ zHist.cleared /\ ~zHist.stale
    /\ Len(threadRanges_) = 2
    /\ threadRanges_[1] \in ValidRanges /\ threadRanges_[2] \in ValidRanges
    /\ threadRanges_[1][2] < threadRanges_[2][1]
    /\ zHist.result = <<threadRanges_[1][1], threadRanges_[2][2]>>

-----------------------------------------------------------------------------
(* Claims about TransientDrawableIndex (checked under SpecT) *)

-----------------------------------------------------------------------------
(* Claims about DrawableLightData (checked under SpecL) *)

\* C3: with a constant maxPixelLights, every light accumulated as LI_IMPORTANT
\* since the Reset() is present in the container after the insertions.
C3_ImportantLightsPresent ==
    (lHist.op = "AccumulateLight" /\ lHist.constant)
        => lHist.important \subseteq LightIndices(lights_)

\* C4: with a constant maxPixelLights, after every AccumulateLight the container
\* holds at most max(maxPixelLights, i) + MaxVertexLights entries, i the number
\* of important lights accumulated so far; so at most MaxVertexLights entries
\* have rank >= firstVertexLight_.
C4_SizeBounded ==
    (lHist.op = "AccumulateLight" /\ lHist.constant) =>
        /\ Len(lights_) <= Max(lHist.mpl, Cardinality(lHist.important)) + MaxVertexLights
        /\ Cardinality({r \in 0..(Len(lights_) - 1) : r >= firstVertexLight_}) <= MaxVertexLights

\* A call that dropped an entry: the container is full after it.
C4_Witness ==
    /\ lHist.op = "AccumulateLight" /\ lHist.constant
    /\ Len(lHist.prevLights) = Len(lights_)
    /\ lHist.prevLights # lights_
    /\ Len(lights_) = Max(lHist.mpl, Cardinality(lHist.important)) + MaxVertexLights

\* C5: after every AccumulateLight, firstVertexLight_ = max(ctx.maxPixelLights_, i),
\* i the number of calls since the Reset() that carried LI_IMPORTANT.
C5_SplitBoundary ==
    lHist.op = "AccumulateLight"
        => firstVertexLight_ = Max(lHist.mpl, Cardinality(lHist.important))

\* More important lights than maxPixelLights: the boundary is their number.
C5_Witness ==
    /\ lHist.op = "AccumulateLight"
    /\ Cardinality(lHist.important) > lHist.mpl
    /\ firstVertexLight_ = Cardinality(lHist.important)

\* The last call found the accumulator at capacity and inserted a penalty
\* strictly lower than every entry's.
AtCapacityLowest ==
    /\ lHist.op = "AccumulateLight"
    /\ Len(lHist.prevLights) = MaxVertexLights + lHist.prevFirst
    /\ \A i \in 1..Len(lHist.prevLights) : lHist.penalty < lHist.prevLights[i][1]

\* The previous highest-penalty entry is gone, the new light is there and the
\* other entries are as before.
EvictedHighest ==
    /\ Len(lights_) = Len(lHist.prevLights)
    /\ lights_[1] = <<lHist.penalty, lHist.calls - 1>>
    /\ \A i \in 2..Len(lights_) : lights_[i] = lHist.prevLights[i - 1]

\* C6 as stated: at capacity, inserting a penalty lower than every entry's
\* evicts the previous highest-penalty entry and keeps the new light.
C6_LowestEvictsHighest == AtCapacityLowest => EvictedHighest

\* C6 amended: the same, provided the call does not raise the split boundary
\* (the recomputed firstVertexLight_ is not above its value before the call).
C6_LowestEvictsHighestSameBoundary ==
    (AtCapacityLowest /\ firstVertexLight_ <= lHist.prevFirst) => EvictedHighest

C6_Witness ==
    /\ AtCapacityLowest /\ firstVertexLight_ <= lHist.prevFirst
    /\ Len(lights_) >= 2
    /\ EvictedHighest

-----------------------------------------------------------------------------
(* Claims about the pipeline state cache (checked under SpecP) *)

\* C7: pipeline-state resolution is idempotent: calls whose assembled descriptor
\* (fixed-function state and shader handles) is equal return the same handle, a
\* descriptor already cached adds no entry, the cache holds no descriptor twice,
\* and a call submits one descriptor: the cache grows by at most one entry and
\* the returned handle is the entry of the call's descriptor.
C7_ResolutionIdempotent ==
    /\ \A x \in pHist.returned, y \in pHist.returned : x[1] = y[1] => x[2] = y[2]
    /\ \A i \in 1..Len(pipelineStateCache), j \in 1..Len(pipelineStateCache) :
          pipelineStateCache[i] = pipelineStateCache[j] => i = j
    /\ pHist.op = "CreateBatchPipelineState" =>
          /\ Len(pipelineStateCache) <= pHist.lenBefore + 1
          /\ pHist.handle \in 1..Len(pipelineStateCache)
          /\ pipelineStateCache[pHist.handle] = pipelineStateDesc_
          /\ pHist.handle <= pHist.lenBefore => Len(pipelineStateCache) = pHist.lenBefore

\* The second call found the descriptor of the first in the cache.
C7_Witness ==
    /\ pHist.builds = 2
    /\ pHist.lenBefore = 1 /\ Len(pipelineStateCache) = 1 /\ pHist.handle = 1
    /\ pipelineStateDesc_.vertexShader # NullShader

-----------------------------------------------------------------------------
(* Claims about the state-assembly rules (checked under SpecR) *)

\* C8 as stated: in the shadow pass without variance shadow maps the depth
\* biases are the split's multiplier times the MATERIAL's depth bias and color
\* write is off; with variance shadow maps color write is on and both are 0.
C8_ShadowBiasFromMaterial ==
    pHist.rule = "shadow" =>
        LET b == pHist.in
            d == pipelineStateDesc_
            multiplier == b.light.shadowDepthBiasMultiplier[b.split + 1]
        IN  IF b.vsm
               THEN d.colorWriteEnabled /\ d.constantDepthBias = 0 /\ d.slopeScaledDepthBias = 0
               ELSE /\ ~d.colorWriteEnabled
                    /\ 4 * d.constantDepthBias = multiplier * b.material.depthBias[1]
                    /\ 4 * d.slopeScaledDepthBias = multiplier * b.material.depthBias[2]

\* C8 amended: the biases are the split's multiplier times the LIGHT's shadow
\* bias (Light::GetShadowBias()); the rest as stated.
C8_ShadowBiasFromLight ==
    pHist.rule = "shadow" =>
        LET b == pHist.in
            d == pipelineStateDesc_
            multiplier == b.light.shadowDepthBiasMultiplier[b.split + 1]
        IN  IF b.vsm
               THEN d.colorWriteEnabled /\ d.constantDepthBias = 0 /\ d.slopeScaledDepthBias = 0
               ELSE /\ ~d.colorWriteEnabled
                    /\ 4 * d.constantDepthBias = multiplier * b.light.shadowBias[1]
                    /\ 4 * d.slopeScaledDepthBias = multiplier * b.light.shadowBias[2]

\* Shadow bias (2.0, 0.5) and multiplier 1.5 give (3.0, 0.75), after an earlier
\* batch and with a different material depth bias.
C8_Witness ==
    /\ pHist.rule = "shadow" /\ pHist.builds = 2 /\ ~pHist.in.vsm
    /\ pHist.in.light.shadowBias = <<8, 2>>
    /\ pHist.in.light.shadowDepthBiasMultiplier[pHist.in.split + 1] = 6
    /\ pHist.in.material.depthBias = <<4, 4>>
    /\ pipelineStateDesc_.constantDepthBias = 12
    /\ pipelineStateDesc_.slopeScaledDepthBias = 3
    /\ ~pipelineStateDesc_.colorWriteEnabled

\* C9: light-volume rule: blend is subtractive for a negative light and additive
\* otherwise; a non-directional light overlapping the camera gets CULL_CW
\* (CULL_CCW when the camera is reversed) and depth compare greater; a
\* non-directional light that does not overlap gets CULL_CCW (CULL_CW when
\* reversed) and less-or-equal; a directional light gets CULL_NONE and always.
C9_LightVolumeRule ==
    pHist.rule = "lightVolume" =>
        LET light == pHist.in.light
            reversed == pHist.in.reversed
            d == pipelineStateDesc_
        IN  /\ d.blendMode = IF light.negative THEN "BLEND_SUBTRACT" ELSE "BLEND_ADD"
            /\ (light.type # "LIGHT_DIRECTIONAL" /\ light.overlapsCamera) =>
                  /\ d.cullMode = IF reversed THEN "CULL_CCW" ELSE "CULL_CW"
                  /\ d.depthCompareFunction = "CMP_GREATER"
            /\ (light.type # "LIGHT_DIRECTIONAL" /\ ~light.overlapsCamera) =>
                  /\ d.cullMode = IF reversed THEN "CULL_CW" ELSE "CULL_CCW"
                  /\ d.depthCompareFunction = "CMP_LESSEQUAL"
            /\ light.type = "LIGHT_DIRECTIONAL" =>
                  /\ d.cullMode = "CULL_NONE"
                  /\ d.depthCompareFunction = "CMP_ALWAYS"

\* A negative spot light overlapping a reversed camera.
C9_Witness ==
    /\ pHist.rule = "lightVolume" /\ pHist.builds = 2
    /\ pHist.in.light.type = "LIGHT_SPOT" /\ pHist.in.light.negative
    /\ pHist.in.light.overlapsCamera /\ pHist.in.reversed
    /\ pipelineStateDesc_.blendMode = "BLEND_SUBTRACT"
    /\ pipelineStateDesc_.cullMode = "CULL_CCW"
    /\ pipelineStateDesc_.depthCompareFunction = "CMP_GREATER"

\* The cull mode the reversal rule prescribes for a resolved mode.
ReversalRule(mode, reversed) ==
    IF ~reversed THEN mode
    ELSE CASE mode = "CULL_CW" -> "CULL_CCW"
           [] mode = "CULL_CCW" -> "CULL_CW"
           [] mode = "CULL_NONE" -> "CULL_NONE"

\* C10: cull-mode reversal: the mode is unchanged when the camera is not
\* reversed; when reversed CULL_CW and CULL_CCW are swapped and CULL_NONE stays;
\* the pass cull mode is used unless it is MAX_CULLMODES, and then the
\* material's; the result is one of CULL_NONE, CULL_CW, CULL_CCW.
C10_CullModeReversal ==
    LET b == pHist.in
        d == pipelineStateDesc_
    IN  /\ pHist.rule = "user" =>
              /\ b.pass.cullMode # "MAX_CULLMODES" =>
                    d.cullMode = ReversalRule(b.pass.cullMode, b.reversed)
              /\ b.pass.cullMode = "MAX_CULLMODES" =>
                    d.cullMode = ReversalRule(b.material.cullMode, b.reversed)
        /\ (pHist.rule = "lightVolume" /\ b.light.type # "LIGHT_DIRECTIONAL") =>
              d.cullMode = ReversalRule(IF b.light.overlapsCamera THEN "CULL_CW" ELSE "CULL_CCW",
                                        b.reversed)
        /\ d.cullMode \in CullModes

\* An unset pass cull mode, material CULL_CW, reversed camera: CULL_CCW.
C10_Witness ==
    /\ pHist.rule = "user" /\ pHist.builds = 2 /\ pHist.in.reversed
    /\ pHist.in.pass.cullMode = "MAX_CULLMODES"
    /\ pHist.in.material.cullMode = "CULL_CW"
    /\ pipelineStateDesc_.cullMode = "CULL_CCW"

-----------------------------------------------------------------------------
(* Claims about rule selection and shader resolution (checked under SpecP) *)

\* C11: every CreateBatchPipelineState call classifies its batch as exactly
\* one of shadow, light-volume or user and applies exactly one of the three
\* rules, never none, whatever the user-pass resolution and sub-pass index.
C11_ExactlyOneRule ==
    pHist.op = "CreateBatchPipelineState" =>
        Cardinality({rule \in {"shadow", "lightVolume", "user"} : pHist.rule = rule}) = 1

\* C12: when a rule was applied and the vertex or the pixel shader of the
\* assembled names and defines does not resolve, the batch is skipped: the
\* descriptor is not submitted, the cache is left as it was and holds no
\* descriptor with a missing shader.
C12_MissingShaderSkipped ==
    ( /\ pHist.op = "CreateBatchPipelineState"
      /\ pHist.rule # "none"
      /\ \/ pipelineStateDesc_.vertexShader = NullShader
         \/ pipelineStateDesc_.pixelShader = NullShader )
    => /\ Len(pipelineStateCache) = pHist.lenBefore
       /\ pHist.handle = 0
       /\ \A h \in 1..Len(pipelineStateCache) :
              /\ pipelineStateCache[h].vertexShader # NullShader
              /\ pipelineStateCache[h].pixelShader # NullShader

-----------------------------------------------------------------------------
(* Claims about the caching of SceneZRange (checked under SpecZ) *)

\* The union of the slots as they stand: smallest minimum, largest maximum.
UnionOfSlots(slots) ==
    LET los == {slots[i][1] : i \in DOMAIN slots} \cup {EmptyRange[1]}
        his == {slots[i][2] : i \in DOMAIN slots} \cup {EmptyRange[2]}
    IN  << CHOOSE m \in los : \A k \in los : m <= k,
           CHOOSE m \in his : \A k \in his : m >= k >>

\* C15 as stated: whatever the order of Clear, Accumulate and Get calls, Get()
\* returns the union of the per-thread slots as they stand, also when
\* Accumulate was called after an earlier Get() of the same frame.
C15_GetIsCurrentUnion ==
    zHist.op = "Get" => zHist.result = UnionOfSlots(threadRanges_)

\* C15 (amended): Get() returns the union of the per-thread slots as they
\* stand provided no Accumulate was called after the first Get() that
\* followed the last Clear(); after such an Accumulate it returns the value of
\* that first Get().
C15_GetIsCurrentUnionUnlessStale ==
    zHist.op = "Get" =>
        IF zHist.stale THEN zHist.result = zHist.first
        ELSE zHist.result = UnionOfSlots(threadRanges_)

\* Two threads accumulated disjoint ranges before the first Get().
C15_Witness ==
    /\ zHist.op = "Get" /\ ~zHist.stale /\ zHist.gets = 1
    /\ threadRanges_ = << <<0, 0>>, <<MaxZ, MaxZ>> >>
    /\ zHist.result = <<0, MaxZ>>

\* C16: Get() runs its merge at most once per Clear(): the first Get() after
\* Clear(n) merges and clears the dirty flag, every later Get() before the
\* next Clear() returns the same cached value, only Clear() sets the dirty
\* flag, and Clear(n) leaves exactly n empty slots.
C16_MergeOncePerClear ==
    /\ zHist.merges <= 1
    /\ sceneRangeDirty_ => (zHist.cleared /\ zHist.gets = 0 /\ zHist.merges = 0)
    /\ (zHist.cleared /\ zHist.gets >= 1) =>
           (zHist.merges = 1 /\ ~sceneRangeDirty_ /\ sceneRange_ = zHist.first)
    /\ zHist.op = "Get" => zHist.result = zHist.first
    /\ zHist.op = "Clear" =>
           /\ sceneRangeDirty_
           /\ Len(threadRanges_) = zHist.n
           /\ \A i \in 1..Len(threadRanges_) : threadRanges_[i] = EmptyRange

\* A second Get() after an Accumulate that followed the first Get(): the
\* cached value is returned although the slots have grown.
C16_Witness ==
    /\ zHist.op = "Get" /\ zHist.gets = 2 /\ zHist.merges = 1 /\ zHist.stale
    /\ zHist.result = <<0, 0>>
    /\ threadRanges_ = << <<0, MaxZ>>, <<1, 1>> >>

\* C17: Accumulate(threadIndex, range) replaces the slot of threadIndex by its
\* union with range and changes nothing else: the other slots, the number of
\* slots, the cached merged range and the dirty flag stay as they were.
C17_AccumulateOwnSlotOnly ==
    [][ \A t \in 0..(MaxThreads - 1), r \in Ranges :
          Accumulate(t, r) =>
            /\ Len(threadRanges_') = Len(threadRanges_)
            /\ \A i \in 1..Len(threadRanges_) :
                  threadRanges_'[i] =
                      IF i = t + 1
                         THEN << Min(threadRanges_[i][1], r[1]), Max(threadRanges_[i][2], r[2]) >>
                         ELSE threadRanges_[i]
            /\ sceneRange_' = sceneRange_
            /\ sceneRangeDirty_' = sceneRangeDirty_ ]_vars

\* Thread 0 widened its slot after a Get(); slot 1 and the cached range stayed.
C17_Witness ==
    /\ zHist.op = "Accumulate" /\ ~sceneRangeDirty_
    /\ threadRanges_ = << <<0, MaxZ>>, <<1, 1>> >>
    /\ sceneRange_ = <<0, 0>>

-----------------------------------------------------------------------------
(* Claims about the ordering of DrawableLightData (checked under SpecL) *)

\* C19: every AccumulateLight call inserts its (penalty, lightIndex) entry and
\* the container stays ascending by penalty; an entry whose penalty equals
\* that of an entry already present (two important lights included) is
\* inserted as a separate entry after it.  Stated for the calls that leave
\* room in the container, where nothing is dropped as excess.
C19_EveryCallInserts ==
    lHist.op = "AccumulateLight" =>
        LET entry == <<lHist.penalty, lHist.calls - 1>>
            prev == lHist.prevLights
            room == Len(prev) < MaxVertexLights + firstVertexLight_
        IN  /\ \A i \in 1..(Len(lights_) - 1) : lights_[i][1] <= lights_[i + 1][1]
            /\ room => /\ Len(lights_) = Len(prev) + 1
                       /\ \E k \in 1..Len(lights_) : lights_[k] = entry
            /\ \A i \in 1..Len(prev) :
                  (room /\ prev[i][1] = lHist.penalty) =>
                      \E j, k \in 1..Len(lights_) :
                          j < k /\ lights_[j] = prev[i] /\ lights_[k] = entry

\* C20: after any sequence of AccumulateLight calls every entry of an
\* important light ranks before every entry of a non-important light, and
\* every important light holds a per-pixel slot (rank < firstVertexLight_),
\* whatever the penalties of the other lights.
C20_ImportantSortsFirst ==
    lHist.op = "AccumulateLight" =>
        /\ \A i, j \in 1..Len(lights_) :
              (lights_[i][2] \in lHist.important /\ lights_[j][2] \notin lHist.important)
                  => i < j
        /\ \A idx \in lHist.important :
              \E i \in 1..Len(lights_) :
                  lights_[i][2] = idx /\ i - 1 < firstVertexLight_

-----------------------------------------------------------------------------
(* Claims about Process (checked under SpecC) *)

\* C13: within one Process() call the phases run in the order InitializeFrame,
\* InitializePasses, UpdateAndCollectSourceBatches, ProcessVisibleLights,
\* CollectSceneBatches, each once, each starting only after the previous one
\* has finished with all its tasks joined; none is skipped or repeated, and
\* the collector is idle again after CollectSceneBatches.
C13_PhasesInOrder ==
    LET order == << "InitializeFrame", "InitializePasses", "UpdateAndCollectSourceBatches",
                    "ProcessVisibleLights", "CollectSceneBatches" >>
        started == cHist.started
        finished == cHist.finished
    IN  /\ Len(started) <= Len(order) /\ started = SubSeq(order, 1, Len(started))
        /\ Len(finished) <= Len(started) /\ finished = SubSeq(order, 1, Len(finished))
        /\ processPc # 0 =>
              /\ Len(started) = Len(finished) + 1
              /\ \A task \in workQueue : task[1] = started[Len(started)]
        /\ processPc = 0 =>
              /\ workQueue = {}
              /\ cHist.frames > 0 => (started = order /\ finished = order)

\* The second Process() call has returned.
C13_Witness ==
    /\ processPc = 0 /\ cHist.frames = 2
    /\ Len(cHist.finished) = 5 /\ cHist.finished[5] = "CollectSceneBatches"

-----------------------------------------------------------------------------
(* Claims about concurrent calls of the builder (checked under SpecK) *)

\* C14: when two CreateBatchPipelineState calls on one builder interleave, each
\* call submits and returns the pipeline state of its own batch, the one it
\* returns when the calls run one after the other.
C14_ConcurrentCallsSafe ==
    \A t \in BuilderThreads :
        builderCalls[t].pc = "returned" =>
            LET own == BuildDescription([p |-> DefaultPipelineStateDesc,
                                         s |-> DefaultShaderProgramDesc],
                                        builderCalls[t].b).p
            IN  /\ builderCalls[t].ret.desc = own
                /\ pipelineStateCache[builderCalls[t].ret.handle] = own

-----------------------------------------------------------------------------
(* Claims about concurrent Accumulate calls (checked under SpecW) *)

\* C18: when worker threads run Accumulate concurrently, each with its own
\* thread index, and Get() runs after they have joined, no accumulated range
\* is lost whatever the interleaving of their read and write steps: once the
\* workers have joined every slot is the union of the ranges its thread
\* accumulated, and Get() returns the union of them all.
C18_NoRangeLost ==
    /\ AllJoined => threadRanges_ = wHist.expected
    /\ wHist.op = "Get" => wHist.result = UnionOfSlots(wHist.expected)

\* Two calls were in flight at once, each widening its own slot twice.
C18_Witness ==
    /\ wHist.op = "Get" /\ wHist.overlapped
    /\ threadRanges_ = << <<0, MaxZ>>, <<0, MaxZ>> >>
    /\ wHist.result = <<0, MaxZ>>

-----------------------------------------------------------------------------
(* Claims about sh_ and Reset() of DrawableLightData (checked under SpecL) *)

\* C21: AccumulateLight never modifies sh_, whether or not the call drops an
\* entry: after any sequence of calls sh_ is the value it had before them.
C21_ShUntouched ==
    sh_ = lHist.sh0

\* A call on a full container whose entry was inserted and the last entry
\* dropped, with sh_ set to a non-default value beforehand.
C21_Witness ==
    /\ lHist.op = "AccumulateLight" /\ sh_ = 1
    /\ Len(lHist.prevLights) = MaxVertexLights + firstVertexLight_
    /\ Len(lights_) = Len(lHist.prevLights)
    /\ lights_ # lHist.prevLights

\* C26: Reset() empties the container and zeroes the important-light count
\* and leaves firstVertexLight_ and sh_ as they were, so after a Reset() the
\* boundary is the previous frame's and can exceed the container size.
C26_ResetKeepsBoundary ==
    lHist.op = "Reset" =>
        /\ lights_ = <<>>
        /\ numImportantLights_ = 0
        /\ firstVertexLight_ = lHist.prevFirst
        /\ sh_ = lHist.sh0

\* After a Reset() the boundary is 2 with an empty container.
C26_Witness ==
    /\ lHist.op = "Reset" /\ lights_ = <<>>
    /\ firstVertexLight_ = 2 /\ sh_ = 1

-----------------------------------------------------------------------------
(* Claims about cull mode and stencil state of the rules (checked under SpecR) *)

\* C22: in the shadow pass no camera reversal is applied: the cull mode is the
\* pass's cull mode when set and the material's shadow cull mode otherwise,
\* whether or not the camera is reversed; depth write and depth compare are
\* the pass's.
C22_ShadowCullNotReversed ==
    pHist.rule = "shadow" =>
        LET b == pHist.in
            d == pipelineStateDesc_
        IN  /\ d.cullMode = IF b.pass.cullMode # "MAX_CULLMODES"
                               THEN b.pass.cullMode
                               ELSE b.material.shadowCullMode
            /\ d.depthWriteEnabled = b.pass.depthWrite
            /\ d.depthCompareFunction = b.pass.depthTestMode

\* A reversed camera, an unset pass cull mode, shadow cull mode CULL_CW.
C22_Witness ==
    /\ pHist.rule = "shadow" /\ pHist.builds = 2 /\ pHist.in.reversed
    /\ pHist.in.pass.cullMode = "MAX_CULLMODES"
    /\ pHist.in.material.shadowCullMode = "CULL_CW"
    /\ pipelineStateDesc_.cullMode = "CULL_CW"
    /\ ~pipelineStateDesc_.depthWriteEnabled
    /\ pipelineStateDesc_.depthCompareFunction = "CMP_EQUAL"

\* C23: in the light-volume pass the stencil test is enabled for every light,
\* with compare function not-equal, compare mask the light's effective light
\* mask intersected with the portable light mask (its low 8 bits), and
\* reference value 0.
C23_LightVolumeStencil ==
    pHist.rule = "lightVolume" =>
        LET d == pipelineStateDesc_
        IN  /\ d.stencilTestEnabled
            /\ d.stencilCompareFunction = "CMP_NOTEQUAL"
            /\ d.stencilCompareMask = pHist.in.light.lightMask % 256
            /\ d.stencilReferenceValue = 0

\* A directional light with light mask 0x105: the compare mask is 5.
C23_Witness ==
    /\ pHist.rule = "lightVolume" /\ pHist.builds = 2
    /\ pHist.in.light.type = "LIGHT_DIRECTIONAL" /\ pHist.in.light.lightMask = 261
    /\ pipelineStateDesc_.stencilTestEnabled
    /\ pipelineStateDesc_.stencilCompareMask = 5

\* The stencil members of a cleared descriptor.
StencilCleared(d) ==
    /\ ~d.stencilTestEnabled
    /\ d.stencilCompareFunction = "CMP_ALWAYS"
    /\ d.stencilOperationOnPassed = "OP_KEEP"
    /\ d.stencilCompareMask = 0
    /\ d.stencilWriteMask = 0
    /\ d.stencilReferenceValue = 0

\* C24 as stated: in a user pass stencil writing is enabled exactly for the
\* deferred sub-pass of a pass with the mask-to-stencil flag, and then the
\* reference value is the drawable's effective light mask; otherwise the
\* stencil state is the cleared one.
C24_StencilRefIsLightMask ==
    pHist.rule = "user" =>
        LET b == pHist.in
            d == pipelineStateDesc_
        IN  IF b.subpass = "Deferred" /\ b.stencilFlag
               THEN /\ d.stencilTestEnabled
                    /\ d.stencilReferenceValue = b.lightMaskInZone
               ELSE StencilCleared(d)

\* C24 (amended): as stated, but the reference value is the drawable's light
\* mask in its zone intersected with the portable light mask (its low 8
\* bits), written with operation OP_REF and write mask 0xFF.
C24_StencilRefIsPortableLightMask ==
    pHist.rule = "user" =>
        LET b == pHist.in
            d == pipelineStateDesc_
        IN  IF b.subpass = "Deferred" /\ b.stencilFlag
               THEN /\ d.stencilTestEnabled
                    /\ d.stencilOperationOnPassed = "OP_REF"
                    /\ d.stencilWriteMask = 255
                    /\ d.stencilReferenceValue = b.lightMaskInZone % 256
               ELSE StencilCleared(d)

\* The deferred sub-pass with the flag and light mask 0x105, after an earlier
\* batch: the reference value is 5.
C24_Witness ==
    /\ pHist.rule = "user" /\ pHist.builds = 2
    /\ pHist.in.subpass = "Deferred" /\ pHist.in.stencilFlag
    /\ pHist.in.lightMaskInZone = 261
    /\ pipelineStateDesc_.stencilTestEnabled
    /\ pipelineStateDesc_.stencilReferenceValue = 5

-----------------------------------------------------------------------------
(* Claims about history independence of the builder (checked under SpecP) *)

\* C25: the descriptor submitted for a batch is the same whatever batches were
\* built before it: it is the descriptor a builder that has built nothing
\* submits for the batch, input layout included, also for a batch for which
\* no rule matched.
C25_HistoryIndependent ==
    pHist.op = "CreateBatchPipelineState" =>
        pipelineStateDesc_ =
            BuildDescription([p |-> DefaultPipelineStateDesc,
                              s |-> DefaultShaderProgramDesc], pHist.in).p

-----------------------------------------------------------------------------
(* Claims about tracy::Lockable (checked under SpecM) *)

\* The number of events of one type in a queue.
CountEvents(queue, type) == Cardinality({i \in 1..Len(queue) : queue[i] = type})

\* C27: lock() enqueues LockWait before it blocks on the wrapped lock and
\* LockObtain only once it owns it; unlock() releases the wrapped lock before
\* it enqueues LockRelease; try_lock() enqueues LockObtain exactly when it
\* succeeded.  So in every thread's queue a LockWait is followed by a
\* LockObtain and a LockObtain by a LockRelease, every LockRelease follows a
\* LockObtain, a thread that has returned from unlock() has as many
\* LockRelease as LockObtain events, at most one thread owns the wrapped
\* lock, and a thread inside a call can take its next step unless it waits
\* for a wrapped lock that another thread owns.
C27_LockEventOrder ==
    \A t \in LockThreads :
        LET q == lockQueue[t]
            th == lockThreads[t]
            obtained == CountEvents(q, "LockObtain")
            released == CountEvents(q, "LockRelease")
        IN  /\ \A i \in 1..Len(q) :
                  /\ q[i] = "LockWait" => (i < Len(q) => q[i + 1] = "LockObtain")
                  /\ q[i] = "LockObtain" => (i < Len(q) => q[i + 1] = "LockRelease")
                  /\ q[i] = "LockRelease" => (i > 1 /\ q[i - 1] = "LockObtain")
            /\ th.pc = "lock.wait" => (q[Len(q)] = "LockWait" /\ m_lockable # t)
            /\ th.pc = "lock.acquired" => (q[Len(q)] = "LockWait" /\ m_lockable = t)
            /\ th.pc = "holding" => (q[Len(q)] = "LockObtain" /\ m_lockable = t)
            /\ th.pc = "unlock.released" =>
                  (q[Len(q)] = "LockObtain" /\ m_lockable # t /\ Len(q) = th.before)
            /\ th.pc = "idle" => (obtained = released /\ m_lockable # t)
            /\ (th.op = "try_lock" /\ th.pc \in {"idle", "holding"}) =>
                  IF th.ret THEN q = Append(SubSeq(q, 1, th.before), "LockObtain")
                  ELSE Len(q) = th.before
            /\ m_lockable = t <=> th.pc \in {"lock.acquired", "holding"}
                                  \/ (th.pc = "try_lock.tried" /\ th.ret)
            /\ (th.pc # "idle" /\ ~(th.pc = "lock.wait" /\ m_lockable # 0)) =>
                  ENABLED (\/ LockAcquire(t) \/ LockObtain(t) \/ UnlockRelease(t)
                           \/ LockRelease(t) \/ TryLockReturn(t))

\* Thread 1 went through lock() and unlock() while thread 2 waited in lock()
\* and then took the lock; thread 2's earlier try_lock() had failed.
C27_Witness ==
    /\ lockQueue[1] = <<"LockWait", "LockObtain", "LockRelease">>
    /\ lockQueue[2] = <<"LockWait", "LockObtain">>
    /\ lockThreads[2].pc = "holding" /\ lockThreads[2].calls = 2
    /\ m_lockable = 2

-----------------------------------------------------------------------------
(* Claims about SceneMetadata (checked under SpecS) *)

\* The number of entries of a list equal to a value.
CountEntries(list, value) == Cardinality({i \in 1..Len(list) : list[i] = value})

\* C28: RegisterComponent appends one entry when the component is a
\* CameraViewport, UnregisterComponent removes the first matching entry and
\* no other, and both leave the list alone for a component of another type;
\* so a viewport has as many entries as registrations minus unregistrations
\* that found it, a viewport registered twice is still listed after one
\* unregister, unregistering an unlisted viewport changes nothing, and the
\* remaining entries keep their order.
C28_ViewportList ==
    LET list == viewportComponents_
        prev == sHist.prev
        c == sHist.component
    IN  /\ \A v \in CameraViewports : CountEntries(list, v) = sHist.net[v]
        /\ \A i \in 1..Len(list) : list[i] \in CameraViewports
        /\ sHist.op = "RegisterComponent" =>
              IF c \in CameraViewports
                 THEN /\ Len(list) = Len(prev) + 1
                      /\ list[Len(list)] = c
                      /\ \A i \in 1..Len(prev) : list[i] = prev[i]
                 ELSE list = prev
        /\ sHist.op = "UnregisterComponent" =>
              IF CountEntries(prev, c) = 0
                 THEN list = prev
                 ELSE \E k \in 1..Len(prev) :
                        /\ prev[k] = c
                        /\ \A j \in 1..(k - 1) : prev[j] # c
                        /\ Len(list) = Len(prev) - 1
                        /\ \A i \in 1..Len(list) :
                              list[i] = IF i < k THEN prev[i] ELSE prev[i + 1]

\* A viewport registered twice, with another between, after one unregister:
\* its second entry is still listed, behind the other viewport.
C28_Witness ==
    /\ sHist.op = "UnregisterComponent" /\ sHist.component = "viewport1"
    /\ sHist.prev = <<"viewport1", "viewport2", "viewport1">>
    /\ viewportComponents_ = <<"viewport2", "viewport1">>

====
